---- MODULE Spec2Model ----
(***************************************************************************)
(* Market-data acquisition layer of the Leeward Asset Dashboard            *)
(* (src/Leeward_Asset_Dashboard.py): the retry helper, the two memoised    *)
(* fetch functions, the markup parser, the series normalisation and the    *)
(* two callers render_node and _get_rt_price.                              *)
(*                                                                         *)
(* Several browser sessions run the script concurrently (one thread per    *)
(* session); the st.cache_data stores are shared by all of them.           *)
(***************************************************************************)
EXTENDS Integers, Sequences, FiniteSets, TLC

(***************************************************************************)
(* Program constants                                                       *)
(***************************************************************************)
API_TIMEOUT == 30
API_RETRY_ATTEMPTS == 3
API_RETRY_DELAY == 2
DA_RETRY_ATTEMPTS == 5
RT_TTL == 120
DA_TTL == 86400

(***************************************************************************)
(* Bounds of the model                                                     *)
(***************************************************************************)
MaxTicks == 2
MaxRows == 3
\* the instants refresh keys are compared at: the minutes 0..MaxMinutes
MaxMinutes == 20

\* concurrently running script threads
Sessions == {"A", "B"}
\* amounts by which the wall clock advances in one step of the environment:
\* one second, up to the last second of a real-time TTL, and up to the last
\* second of a day-ahead TTL
ClockSteps == {1, RT_TTL - 1, DA_TTL - 1}

(***************************************************************************)
(* Cells, rows and response bodies.                                        *)
(* A cell is the text between <td> and </td>: <<"n", v>> is text that      *)
(* reads as the number (or the instant, in minutes) v, <<"x", 0>> is text  *)
(* that reads as neither, <<"e", 0>> is an empty cell or a missing one.    *)
(* A body is the sequence of its <tr> segments.                            *)
(***************************************************************************)
Num(v) == <<"n", v>>
Txt == <<"x", 0>>
Emp == <<"e", 0>>
NaN == <<"nan", 0>>
NoneP == <<"none", 0>>

IsNum(c) == c[1] = "n"

Th(cols) == [tag |-> "th", cells |-> cols]
Td(cells) == [tag |-> "td", cells |-> cells]
TrOther == [tag |-> "other", cells |-> <<>>]

Max(a, b) == IF a >= b THEN a ELSE b

RECURSIVE MaxLen(_)
MaxLen(rows) ==
  IF rows = <<>> THEN 0 ELSE Max(Len(Head(rows)), MaxLen(Tail(rows)))

\* pd.DataFrame(data, columns=headers): rows shorter than the widest row are
\* padded with missing cells
Pad(row, n) == [i \in 1..n |-> IF i <= Len(row) THEN row[i] ELSE Emp]

NoFrame == [st |-> "none", cols |-> <<>>, rows |-> <<>>]

RECURSIVE ParseLoop(_, _, _)
ParseLoop(trs, headers, data) ==
  IF trs = <<>> THEN [headers |-> headers, data |-> data]
  ELSE LET row == Head(trs) IN
       IF row.tag = "th" THEN ParseLoop(Tail(trs), row.cells, data)
       ELSE IF row.tag = "td" /\ row.cells # <<>>
            THEN ParseLoop(Tail(trs), headers, Append(data, row.cells))
            ELSE ParseLoop(Tail(trs), headers, data)

\* st = "df": a DataFrame; st = "none": None; st = "raise": the DataFrame
\* constructor raised ValueError (column count differs from the data width)
parse_yes_html_table(html_text) ==
  IF html_text = <<>> THEN NoFrame
  ELSE LET r == ParseLoop(html_text, <<>>, <<>>) IN
       IF r.headers # <<>> /\ r.data # <<>>
       THEN IF Len(r.headers) # MaxLen(r.data)
            THEN [st |-> "raise", cols |-> <<>>, rows |-> <<>>]
            ELSE [st |-> "df", cols |-> r.headers,
                  rows |-> [i \in 1..Len(r.data) |-> Pad(r.data[i], Len(r.headers))]]
       ELSE NoFrame

HasCol(df, name) == \E i \in 1..Len(df.cols) : df.cols[i] = name
ColIdx(df, name) ==
  CHOOSE i \in 1..Len(df.cols) :
    df.cols[i] = name /\ \A j \in 1..(i - 1) : df.cols[j] # name
Column(df, name) == [i \in 1..Len(df.rows) |-> df.rows[i][ColIdx(df, name)]]

\* pd.to_datetime raises on text that is no date; missing and empty cells
\* become NaT
DatetimeRaises(col) == \E i \in 1..Len(col) : col[i] = Txt
to_datetime(c) == IF IsNum(c) THEN c ELSE NaN
\* pd.to_numeric(errors='coerce')
to_numeric(c) == IF IsNum(c) THEN c ELSE NaN

(***************************************************************************)
(* Errors, values and results of a fetch.                                  *)
(* An error is the exception a fetch raises: kind says which raise it is,  *)
(* who is the description it was raised for, code the status code, the     *)
(* timeout or the identity of the underlying exception.                    *)
(***************************************************************************)
NoErr == [kind |-> "none", who |-> <<"", 0>>, code |-> 0]
Err(kind, who, code) == [kind |-> kind, who |-> who, code |-> code]
NoVal == [df |-> <<>>, latest |-> NoneP]
Ok(val) == [st |-> "ok", val |-> val, err |-> NoErr]
Exc(err) == [st |-> "exc", val |-> NoVal, err |-> err]
NoRes == [st |-> "none", val |-> NoVal, err |-> NoErr]

Perms(n) == {p \in [1..n -> 1..n] : \A i, j \in 1..n : p[i] = p[j] => i = j}

\* (variant: the rows stay in the order of the response)
SortOrdersUnsorted(keys) == {[i \in 1..Len(keys) |-> i]}
\* df.sort_values(column): ascending on the key, missing keys last in their
\* original order; the default sort kind is not stable, so rows with equal
\* keys may come out in either order
SortOrders(keys) ==
  {p \in Perms(Len(keys)) :
     \A i, j \in 1..Len(keys) :
       i < j =>
         LET a == keys[p[i]]
             b == keys[p[j]]
         IN IF IsNum(a) /\ IsNum(b) THEN a[2] <= b[2]
            ELSE IF IsNum(a) THEN TRUE
            ELSE IF IsNum(b) THEN FALSE
            ELSE p[i] < p[j]}

MinutesPerDay == 24 * 60

\* datetime.dt.hour + datetime.dt.minute / 60.0, kept in minutes
time_hrs(dt) == IF IsNum(dt) THEN Num(dt[2] % MinutesPerDay) ELSE NaN
\* datetime.dt.hour + 1
HourPlusOne(dt) == IF IsNum(dt) THEN Num(((dt[2] % MinutesPerDay) \div 60) + 1) ELSE NaN

\* the rows of valid_prices: the sorted rows whose RT_Price is a number
dropna(rows) == SelectSeq(rows, LAMBDA r : IsNum(r[2]))

\* (variant: no check that a valid price exists; the last row gives the price)
RtNormalizeUnchecked(objectid, df, p) ==
  LET dts == [i \in 1..Len(df.rows) |-> to_datetime(Column(df, "DATETIME")[i])]
      prices == [i \in 1..Len(df.rows) |-> to_numeric(Column(df, "AVGVALUE")[i])]
      sorted == [i \in 1..Len(df.rows) |-> <<time_hrs(dts[p[i]]), prices[p[i]]>>]
  IN Ok([df |-> sorted, latest |-> sorted[Len(sorted)][2]])
\* lines 224-241 of fetch_rt_5min, for one order p the sort may produce
RtNormalize(objectid, df, p) ==
  LET dts == [i \in 1..Len(df.rows) |-> to_datetime(Column(df, "DATETIME")[i])]
      prices == [i \in 1..Len(df.rows) |-> to_numeric(Column(df, "AVGVALUE")[i])]
      sorted == [i \in 1..Len(df.rows) |-> <<time_hrs(dts[p[i]]), prices[p[i]]>>]
      valid_prices == dropna(sorted)
  IN IF valid_prices = <<>>
     THEN Exc(Err("novalid", <<"RT", objectid>>, 0))
     ELSE Ok([df |-> sorted, latest |-> valid_prices[Len(valid_prices)][2]])

\* every result fetch_rt_5min can produce from a 2xx response with this body
RtResults(objectid, body) ==
  LET df == parse_yes_html_table(body) IN
  IF df.st = "raise" THEN {Exc(Err("value", <<"RT", objectid>>, 0))}
  ELSE IF df.st = "none" \/ df.rows = <<>> THEN {Exc(Err("empty", <<"RT", objectid>>, 0))}
  ELSE IF ~HasCol(df, "DATETIME") THEN {Exc(Err("key", <<"RT", objectid>>, 0))}
  ELSE IF DatetimeRaises(Column(df, "DATETIME")) THEN {Exc(Err("value", <<"RT", objectid>>, 0))}
  ELSE IF ~HasCol(df, "AVGVALUE") THEN {Exc(Err("key", <<"RT", objectid>>, 0))}
  ELSE {RtNormalize(objectid, df, p) :
          p \in SortOrders([i \in 1..Len(df.rows) |-> to_datetime(Column(df, "DATETIME")[i])])}

\* the HE column of fetch_da_hourly
DaHE(df) ==
  IF HasCol(df, "HOURENDING")
  THEN [i \in 1..Len(df.rows) |-> to_numeric(Column(df, "HOURENDING")[i])]
  ELSE [i \in 1..Len(df.rows) |-> HourPlusOne(to_datetime(Column(df, "DATETIME")[i]))]

\* (variant: the rows without a price are dropped from the series)
DaNormalizeDropNull(objectid, df, p) ==
  LET prices == [i \in 1..Len(df.rows) |-> to_numeric(Column(df, "AVGVALUE")[i])]
      he == DaHE(df)
  IN Ok([df |-> dropna([i \in 1..Len(df.rows) |-> <<he[p[i]], prices[p[i]]>>]),
         latest |-> NoneP])
\* lines 259-270 of fetch_da_hourly, for one order p the sort may produce
DaNormalize(objectid, df, p) ==
  LET prices == [i \in 1..Len(df.rows) |-> to_numeric(Column(df, "AVGVALUE")[i])]
      he == DaHE(df)
  IN Ok([df |-> [i \in 1..Len(df.rows) |-> <<he[p[i]], prices[p[i]]>>],
         latest |-> NoneP])

\* every result fetch_da_hourly can produce from a 2xx response with this body
DaResults(objectid, body) ==
  LET df == parse_yes_html_table(body) IN
  IF df.st = "raise" THEN {Exc(Err("value", <<"DA", objectid>>, 0))}
  ELSE IF df.st = "none" \/ df.rows = <<>> THEN {Exc(Err("empty", <<"DA", objectid>>, 0))}
  ELSE IF ~HasCol(df, "DATETIME") THEN {Exc(Err("key", <<"DA", objectid>>, 0))}
  ELSE IF DatetimeRaises(Column(df, "DATETIME")) THEN {Exc(Err("value", <<"DA", objectid>>, 0))}
  ELSE IF ~HasCol(df, "AVGVALUE") THEN {Exc(Err("key", <<"DA", objectid>>, 0))}
  ELSE {DaNormalize(objectid, df, p) : p \in SortOrders(DaHE(df))}

(***************************************************************************)
(* Clock, zones and keys.  now counts seconds of local Central time.       *)
(***************************************************************************)
SecondsPerDay == 24 * 60 * 60

\* seconds by which the zone's local time is ahead of Central time
ISO_TIMEZONES == [ERCOT |-> 0, PJM |-> 3600, CAISO |-> -7200]

LocalSeconds(tz, t) == t + ISO_TIMEZONES[tz]
LocalHour(tz, t) == (LocalSeconds(tz, t) % SecondsPerDay) \div 3600
LocalMinute(tz, t) == (LocalSeconds(tz, t) % 3600) \div 60

\* datetime.now(tz).strftime('%Y-%m-%d'): the day number stands for the text
date_str(tz, t) == LocalSeconds(tz, t) \div SecondsPerDay
\* datetime.now(tz).strftime('%Y-%m-%d %H:%M'): the date (with the blank
\* after it, 11 characters) and then one element per character
strftime_minute(tz, t) ==
  <<date_str(tz, t), LocalHour(tz, t) \div 10, LocalHour(tz, t) % 10,
    LocalMinute(tz, t) \div 10, LocalMinute(tz, t) % 10>>
\* [:15] keeps the date and the first four of the five characters 'HH:MM'
\* (the colon is not modelled): the last minute digit is cut off
refresh_key(tz, t) == SubSeq(strftime_minute(tz, t), 1, 4)

get_current_he(tz, t) == LocalHour(tz, t) + 1

RtKey(objectid, d, rk) == [fn |-> "rt", args |-> <<objectid, d, rk>>]
DaKey(objectid, d) == [fn |-> "da", args |-> <<objectid, d>>]

Ttl(fn) == IF fn = "rt" THEN RT_TTL ELSE DA_TTL
Retries(fn) == IF fn = "rt" THEN API_RETRY_ATTEMPTS ELSE DA_RETRY_ATTEMPTS
Description(fn, objectid) == <<IF fn = "rt" THEN "RT" ELSE "DA", objectid>>

(***************************************************************************)
(* What one GET can produce                                                *)
(***************************************************************************)
\* a response with a status code and a body, or an exception of requests
Http(code, body) == [kind |-> "http", code |-> code, body |-> body]
Timeout == [kind |-> "timeout", code |-> 0, body |-> <<>>]
RequestException == [kind |-> "request", code |-> 1, body |-> <<>>]

\* the outcomes of a GET that carry no table
BadOutcomes ==
  {Http(503, <<>>), Http(404, <<>>), Http(304, <<>>), Timeout, RequestException}

\* response.ok: requests takes every status code outside 400..599 as ok
response_ok(status_code) == ~(status_code >= 400 /\ status_code < 600)

RtCols == <<"DATETIME", "AVGVALUE">>
DaCols == <<"DATETIME", "AVGVALUE", "HOURENDING">>

\* response bodies of the real-time endpoint
RtBodies ==
  { <<>>,
    <<Th(RtCols), TrOther>>,
    <<Th(RtCols), Td(<<Num(0), Txt>>), Td(<<Num(5), Emp>>)>>,
    <<Th(RtCols), Td(<<Num(5), Txt>>), Td(<<Num(0), Num(21)>>)>>,
    <<Th(RtCols), Td(<<Num(10), Num(25)>>), Td(<<Num(5), Num(30)>>)>> }

\* response bodies of the day-ahead endpoint
DaBodies ==
  { <<>>,
    <<Td(<<Num(0), Num(35), Num(1)>>)>>,
    <<Th(DaCols), Td(<<Num(1380), Num(40), Num(24)>>), Td(<<Num(0), Num(35), Num(1)>>)>>,
    <<Th(RtCols), Td(<<Num(60), Txt>>), Td(<<Num(0), Num(33)>>)>>,
    <<Th(DaCols), Td(<<Num(0), Num(35), Txt>>)>> }

Bodies(fn) == IF fn = "rt" THEN RtBodies ELSE DaBodies

(***************************************************************************)
(* The node registries, in registry order                                  *)
(***************************************************************************)
ERCOT_NODES == <<1, 2>>
PJM_NODES == <<3>>
CAISO_NODES == <<>>
NodesOf(iso) ==
  IF iso = "ERCOT" THEN ERCOT_NODES ELSE IF iso = "PJM" THEN PJM_NODES ELSE CAISO_NODES
Isos == {"ERCOT", "PJM"}

(***************************************************************************)
(* State                                                                   *)
(***************************************************************************)
VARIABLES
  now,       \* the wall clock, in seconds
  ticks,     \* how often the clock has advanced
  cache,     \* the st.cache_data stores: records [key, value, storedAt]
  locks,     \* keys whose value is being computed by some thread
  sess,      \* per session thread: its position and its local variables
  out        \* what the last step put on the page: the panel of a node, a
             \* row of the All-RT tab, or nothing

vars == <<now, ticks, cache, locks, sess, out>>

NoObserved == [kind |-> "none", code |-> 0, body |-> <<>>]
NoRt == [failed |-> FALSE, isnone |-> TRUE, df |-> <<>>, current_rt |-> NoneP]
NoOut ==
  [st |-> "none", session |-> "", node |-> 0, rt_str |-> <<"", 0>>, da_str |-> <<"", 0>>,
   rt_color |-> "", steps |-> <<>>, rt_failed |-> FALSE, da_failed |-> FALSE,
   current_rt |-> NoneP, current_da |-> NoneP]

\* the locals of one call of a fetch function, before its first statement
\* (history of the call: at, the time of its cache lookup; observed, the
\* outcome of the latest GET; response, the response _fetch_with_retry
\* returned, if it returned one; trace, the GETs and sleeps in their order;
\* due, the result of the fetch another session finished for the same key
\* while this call waited for the compute lock)
NoCall ==
  [attempt |-> 0, max_retries |-> 0, last_error |-> NoErr,
   at |-> 0, observed |-> NoObserved, response |-> NoObserved, trace |-> <<>>,
   due |-> NoRes, hit |-> FALSE, res |-> NoRes]

\* the run of main a session is in: pc is its position ("none": no run;
\* "he": before line 557; "tabs": in the tabs of lines 582-594; "raised",
\* "done": the run has ended), now the local of line 556, he the local of
\* line 557, seconds_until_refresh the local of line 568 (0 while it is not
\* assigned), todo the tabs still to render
\* (history of the run: paths, one entry <<node, function, GETs>> for every
\* time a fetch function ran its body in this run)
NoRun ==
  [pc |-> "none", now |-> 0, he |-> 0, seconds_until_refresh |-> 0, todo |-> <<>>,
   paths |-> <<>>]

IdleSession ==
  [op |-> "none", todo |-> <<>>, date |-> 0, rk |-> <<0, 0, 0, 0>>, he |-> 0,
   pc |-> "idle", fn |-> "rt", call |-> NoCall, rt |-> NoRt, run |-> NoRun]

Init ==
  /\ now = 0
  /\ ticks = 0
  /\ cache = {}
  /\ locks = {}
  /\ sess = [s \in Sessions |-> IdleSession]
  /\ out = NoOut

Node(s) == Head(sess[s].todo)

\* the cache key of the call the session is in
Key(s) ==
  IF sess[s].fn = "rt" THEN RtKey(Node(s), sess[s].date, sess[s].rk)
  ELSE DaKey(Node(s), sess[s].date)

(***************************************************************************)
(* st.cache_data(ttl=...)                                                  *)
(***************************************************************************)
\* (variant: an entry still counts at the instant its ttl has elapsed)
IsLiveInclusive(e, t) == t - e.storedAt <= Ttl(e.key.fn)
IsLive(e, t) == t - e.storedAt < Ttl(e.key.fn)
LiveEntries(key, t) == {e \in cache : e.key = key /\ IsLive(e, t)}
HasLive(key, t) == LiveEntries(key, t) # {}
Stored(key, t) == (CHOOSE e \in LiveEntries(key, t) : TRUE).value
\* a write drops the entry it replaces and the expired entries of the store
CacheWrite(c, key, value, t) ==
  {e \in c : e.key # key /\ (e.key.fn = key.fn => IsLive(e, t))}
    \cup {[key |-> key, value |-> value, storedAt |-> t]}

\* (variant: whatever the wrapped function ended with is stored)
CacheAfterAlways(c, key, r, t) == CacheWrite(c, key, r.val, t)
\* the wrapped function returned r (or raised): only a returned value is stored
CacheAfter(c, key, r, t) == IF r.st = "ok" THEN CacheWrite(c, key, r.val, t) ELSE c

(***************************************************************************)
(* _fetch_with_retry                                                       *)
(***************************************************************************)
\* (variant: the first error is kept)
LastErrorFirst(last_error, description, f) ==
  IF last_error # NoErr THEN last_error
  ELSE Err(f.kind, description, IF f.kind = "timeout" THEN API_TIMEOUT ELSE f.code)
\* the f-strings assigned to last_error
LastError(last_error, description, f) ==
  Err(f.kind, description, IF f.kind = "timeout" THEN API_TIMEOUT ELSE f.code)

\* if attempt < max_retries: time.sleep(API_RETRY_DELAY)
ShouldSleep(attempt, max_retries) == attempt < max_retries

\* attempt in range(1, max_retries + 1)
InRange(attempt, max_retries) == 1 <= attempt /\ attempt <= max_retries

\* the number of GETs in the trace of a call
GetCount(trace) == Len(SelectSeq(trace, LAMBDA e : e[1] = "get"))

\* the wrapped fetch function ends with r (returned or raised): the cache
\* stores a returned value, the compute lock of the key is released and the
\* caller gets r
Finish(s, call, r) ==
  /\ cache' = CacheAfter(cache, Key(s), r, now)
  /\ locks' = locks \ {Key(s)}
  /\ sess' = [t \in Sessions |->
               IF t = s
               THEN [sess[s] EXCEPT
                       !.call = [call EXCEPT !.res = r], !.pc = "ret",
                       !.run.paths =
                         IF sess[s].run.pc = "tabs"
                         THEN Append(@, <<Node(s), sess[s].fn, GetCount(call.trace)>>)
                         ELSE @]
               ELSE IF sess[t].pc = "lock" /\ Key(t) = Key(s)
                    THEN [sess[t] EXCEPT !.call.due = r]
                    ELSE sess[t]]

\* the end of one iteration of the for loop: the next attempt, or after the
\* loop raise Exception(last_error)
LoopNext(s, call) ==
  IF InRange(call.attempt + 1, call.max_retries)
  THEN /\ sess' = [sess EXCEPT ![s].call = [call EXCEPT !.attempt = call.attempt + 1],
                               ![s].pc = "get"]
       /\ UNCHANGED <<cache, locks>>
  ELSE Finish(s, call, Exc(call.last_error))

\* the body of a fetch function after _fetch_with_retry returned a response
Results(fn, objectid, body) ==
  IF fn = "rt" THEN RtResults(objectid, body) ELSE DaResults(objectid, body)

\* consult the cache for the key of the call
CacheLookup(s) ==
  /\ sess[s].pc = "call"
  /\ IF HasLive(Key(s), now)
     THEN sess' = [sess EXCEPT ![s].call = [NoCall EXCEPT !.at = now, !.hit = TRUE,
                                                          !.res = Ok(Stored(Key(s), now))],
                               ![s].pc = "ret"]
     ELSE sess' = [sess EXCEPT ![s].call = [NoCall EXCEPT !.at = now], ![s].pc = "lock"]
  /\ out' = NoOut
  /\ UNCHANGED <<now, ticks, cache, locks>>

\* a miss: take the compute lock of the key, look again, and enter the
\* wrapped function when the key is still missing
AcquireLock(s) ==
  /\ sess[s].pc = "lock"
  /\ Key(s) \notin locks
  /\ IF HasLive(Key(s), now)
     THEN /\ sess' = [sess EXCEPT ![s].call = [@ EXCEPT !.at = now, !.hit = TRUE,
                                                        !.res = Ok(Stored(Key(s), now))],
                                  ![s].pc = "ret"]
          /\ UNCHANGED locks
     ELSE /\ sess' = [sess EXCEPT ![s].call = [@ EXCEPT !.at = now, !.attempt = 1,
                                                        !.max_retries = Retries(sess[s].fn)],
                                  ![s].pc = "get"]
          /\ locks' = locks \cup {Key(s)}
  /\ out' = NoOut
  /\ UNCHANGED <<now, ticks, cache>>

\* one iteration of the for loop up to the sleep: requests.get returns a
\* response or raises.  A response that is ok is returned to the fetch
\* function, which parses and normalises its body
Get(s, o) ==
  /\ sess[s].pc = "get"
  /\ IF o.kind = "http" /\ response_ok(o.code)
     THEN LET call == [sess[s].call EXCEPT
                         !.trace = Append(@, <<"get", API_TIMEOUT>>), !.observed = o, !.response = o]
          IN \E r \in Results(sess[s].fn, Node(s), o.body) : Finish(s, call, r)
     ELSE LET call == [sess[s].call EXCEPT
                         !.trace = Append(@, <<"get", API_TIMEOUT>>), !.observed = o,
                         !.last_error = LastError(@, Description(sess[s].fn, Node(s)), o)]
          IN IF ShouldSleep(call.attempt, call.max_retries)
             THEN /\ sess' = [sess EXCEPT ![s].call = call, ![s].pc = "sleep"]
                  /\ UNCHANGED <<cache, locks>>
             ELSE LoopNext(s, call)
  /\ out' = NoOut
  /\ UNCHANGED <<now, ticks>>

\* time.sleep(API_RETRY_DELAY) and the end of the iteration; the clock
\* advances in the steps of Tick
Sleep(s) ==
  /\ sess[s].pc = "sleep"
  /\ LoopNext(s, [sess[s].call EXCEPT !.trace = Append(@, <<"sleep", API_RETRY_DELAY>>)])
  /\ out' = NoOut
  /\ UNCHANGED <<now, ticks>>

(***************************************************************************)
(* Display functions                                                       *)
(***************************************************************************)
NA == <<"N/A", 0>>
\* (variant: a missing price is shown as zero)
PriceStrZero(price) ==
  IF price = NoneP THEN <<"$", 0>>
  ELSE IF IsNum(price) THEN <<"$", price[2]>> ELSE <<"$nan", 0>>
\* f"${price:.2f}" if price is not None else "N/A"
PriceStr(price) ==
  IF price = NoneP THEN NA
  ELSE IF IsNum(price) THEN <<"$", price[2]>> ELSE <<"$nan", 0>>

\* the colour of the RT box in render_price_boxes
RtColor(da_price, rt_price) ==
  IF rt_price # NoneP /\ da_price # NoneP
  THEN IF IsNum(rt_price) /\ IsNum(da_price) /\ rt_price[2] >= da_price[2]
       THEN "price-green" ELSE "price-red"
  ELSE IF rt_price # NoneP THEN "price-green" ELSE "price-red"

\* the colour of a row of render_iso_column
RowColor(current_rt) ==
  IF current_rt # NoneP
  THEN IF IsNum(current_rt) /\ current_rt[2] >= 0 THEN "#00ff00" ELSE "#ff4444"
  ELSE "#888"

\* da_row = da_df[da_df['HE'] == current_he]; da_row['DA_Price'].iloc[0]
CurrentDa(da_ok, da_df, current_he) ==
  LET da_row == SelectSeq(da_df, LAMBDA r : r[1] = Num(current_he)) IN
  IF da_ok /\ da_df # <<>> /\ da_row # <<>> THEN da_row[1][2] ELSE NoneP

\* int(row['HE']) raises ValueError when the hour-ending is not a number
ChartRaises(da_ok, da_df) ==
  da_ok /\ \E i \in 1..Len(da_df) : ~IsNum(da_df[i][1])

\* the pairs (da_x[i], da_y[i]) built by the loop of create_price_chart
RECURSIVE ExpandSteps(_)
ExpandSteps(da_df) ==
  IF da_df = <<>> THEN <<>>
  ELSE LET he == Head(da_df)[1][2]
           price == Head(da_df)[2]
       IN <<(<<he - 1, price>>), (<<he, price>>)>> \o ExpandSteps(Tail(da_df))

(***************************************************************************)
(* Callers: the ISO tabs (render_node per node) and the columns of the     *)
(* All-RT tab (_get_rt_price per node)                                     *)
(***************************************************************************)
\* render_ercot_tab, render_pjm_tab, render_caiso_tab up to the first
\* render_node
TabSession(s, iso) ==
  [IdleSession EXCEPT !.op = "tab", !.todo = NodesOf(iso),
                      !.date = date_str(iso, now),
                      !.he = get_current_he(iso, now),
                      !.rk = refresh_key(iso, now),
                      !.fn = "rt", !.pc = "call", !.run = sess[s].run]
StartTab(s, iso) ==
  /\ sess[s].pc = "idle"
  /\ NodesOf(iso) # <<>>
  /\ sess' = [sess EXCEPT ![s] = TabSession(s, iso)]
  /\ out' = NoOut
  /\ UNCHANGED <<now, ticks, cache, locks>>

\* render_iso_column up to the first _get_rt_price
ColumnSession(s, iso) ==
  [IdleSession EXCEPT !.op = "column", !.todo = NodesOf(iso),
                      !.date = date_str(iso, now),
                      !.rk = refresh_key(iso, now),
                      !.fn = "rt", !.pc = "call", !.run = sess[s].run]
StartColumn(s, iso) ==
  /\ sess[s].pc = "idle"
  /\ NodesOf(iso) # <<>>
  /\ sess' = [sess EXCEPT ![s] = ColumnSession(s, iso)]
  /\ out' = NoOut
  /\ UNCHANGED <<now, ticks, cache, locks>>

\* the session after the panel or row of its current node is complete: the
\* loop over the nodes goes on with the next node, or the tab is done
NextNode(r) ==
  IF Tail(r.todo) # <<>>
  THEN [r EXCEPT !.todo = Tail(r.todo), !.fn = "rt", !.pc = "call",
                 !.call = NoCall, !.rt = NoRt]
  ELSE [r EXCEPT !.todo = <<>>, !.pc = "idle", !.call = NoCall, !.rt = NoRt]

\* render_node, lines 392-398: the try/except around fetch_rt_5min
ReturnRenderRT(s) ==
  /\ sess[s].pc = "ret" /\ sess[s].op = "tab" /\ sess[s].fn = "rt"
  /\ LET res == sess[s].call.res IN
     sess' = [sess EXCEPT
                ![s].rt = IF res.st = "ok"
                          THEN [failed |-> FALSE, isnone |-> FALSE, df |-> res.val.df,
                                current_rt |-> res.val.latest]
                          ELSE [NoRt EXCEPT !.failed = TRUE],
                ![s].fn = "da", ![s].pc = "call", ![s].call = NoCall]
  /\ out' = NoOut
  /\ UNCHANGED <<now, ticks, cache, locks>>

\* render_node, lines 400-416: the try/except around fetch_da_hourly, the
\* price boxes and the chart
ReturnRenderDA(s) ==
  /\ sess[s].pc = "ret" /\ sess[s].op = "tab" /\ sess[s].fn = "da"
  /\ LET res == sess[s].call.res
         da_ok == res.st = "ok"
         da_df == res.val.df
         current_rt == sess[s].rt.current_rt
         current_da == CurrentDa(da_ok, da_df, sess[s].he)
         boxes == [NoOut EXCEPT
                     !.session = s, !.node = Node(s),
                     !.rt_failed = sess[s].rt.failed, !.da_failed = ~da_ok,
                     !.current_rt = current_rt, !.current_da = current_da,
                     !.da_str = PriceStr(current_da), !.rt_str = PriceStr(current_rt),
                     !.rt_color = RtColor(current_da, current_rt)]
     IN IF ChartRaises(da_ok, da_df)
        THEN /\ sess' = [sess EXCEPT ![s] =
                           [sess[s] EXCEPT !.todo = <<>>, !.pc = "idle",
                                           !.call = NoCall, !.rt = NoRt,
                                           !.run = IF @.pc = "tabs"
                                                   THEN [@ EXCEPT !.pc = "raised", !.todo = <<>>]
                                                   ELSE @]]
             /\ out' = [boxes EXCEPT !.st = "crash"]
        ELSE /\ sess' = [sess EXCEPT ![s] = NextNode(sess[s])]
             /\ out' = [boxes EXCEPT !.st = "done",
                                     !.steps = IF da_ok THEN ExpandSteps(da_df) ELSE <<>>]
  /\ UNCHANGED <<now, ticks, cache, locks>>

\* _get_rt_price and the row render_iso_column writes for it
ReturnGetRtPrice(s) ==
  /\ sess[s].pc = "ret" /\ sess[s].op = "column"
  /\ LET res == sess[s].call.res
         current_rt == IF res.st = "ok" THEN res.val.latest ELSE NoneP
     IN /\ sess' = [sess EXCEPT ![s] = NextNode(sess[s])]
        /\ out' = [NoOut EXCEPT !.st = "done", !.session = s, !.node = Node(s),
                                !.rt_failed = res.st # "ok",
                                !.current_rt = current_rt,
                                !.rt_str = PriceStr(current_rt),
                                !.rt_color = RowColor(current_rt)]
  /\ UNCHANGED <<now, ticks, cache, locks>>

\* the wall clock advances
Tick(d) ==
  /\ ticks < MaxTicks
  /\ now' = now + d
  /\ ticks' = ticks + 1
  /\ out' = NoOut
  /\ UNCHANGED <<cache, locks, sess>>

(***************************************************************************)
(* main.  Line 557 calls get_current_he with no argument, which raises     *)
(* TypeError in every run, so the lines after it are reached in no run of  *)
(* main.  MainStart and MainCurrentHe are main as it runs; Refresh (lines  *)
(* 577-580) and MainTabs, NextTab, MainEnd (lines 582-594) are those lines *)
(* as they are written, for the specifications that are about them.        *)
(***************************************************************************)
\* a call of get_current_he with the positional arguments args at time t
GetCurrentHeCall(args, t) ==
  IF Len(args) = 1 THEN [st |-> "ok", he |-> get_current_he(args[1], t)]
  ELSE [st |-> "TypeError", he |-> 0]

\* lines 554-556: the title and now = datetime.now(CENTRAL_TZ)
MainStart(s) ==
  /\ sess[s].pc = "idle"
  /\ sess[s].run.pc \in {"none", "raised"}
  /\ sess' = [sess EXCEPT ![s].run = [NoRun EXCEPT !.pc = "he", !.now = now]]
  /\ out' = NoOut
  /\ UNCHANGED <<now, ticks, cache, locks>>

\* line 557: current_he = get_current_he()
MainCurrentHe(s) ==
  /\ sess[s].run.pc = "he"
  /\ LET r == GetCurrentHeCall(<<>>, now) IN
     IF r.st = "ok"
     THEN /\ sess' = [sess EXCEPT ![s].run.pc = "delay", ![s].run.he = r.he]
          /\ out' = NoOut
     ELSE /\ sess' = [sess EXCEPT ![s].run.pc = "raised"]
          /\ out' = [NoOut EXCEPT !.st = "crash", !.session = s]
  /\ UNCHANGED <<now, ticks, cache, locks>>

\* lines 577-580: the Refresh button was pressed: st.cache_data.clear()
\* empties the stores of both fetch functions, st.rerun() ends the run
Refresh(s) ==
  /\ sess[s].pc = "idle"
  /\ sess[s].run.pc = "none"
  /\ cache' = {}
  /\ out' = [NoOut EXCEPT !.st = "rerun", !.session = s]
  /\ UNCHANGED <<now, ticks, locks, sess>>

\* the tabs in the order of lines 584-594: the three columns of
\* render_all_rt_tab (lines 543-550), then the three ISO tabs
TabOrder ==
  << <<"column", "ERCOT">>, <<"column", "PJM">>, <<"column", "CAISO">>,
     <<"tab", "ERCOT">>, <<"tab", "PJM">>, <<"tab", "CAISO">> >>

\* line 582: st.tabs
MainTabs(s) ==
  /\ sess[s].pc = "idle"
  /\ sess[s].run.pc = "none"
  /\ sess' = [sess EXCEPT ![s].run = [NoRun EXCEPT !.pc = "tabs", !.todo = TabOrder]]
  /\ out' = NoOut
  /\ UNCHANGED <<now, ticks, cache, locks>>

\* lines 584-594: the next tab (or column) begins; one without nodes is
\* complete at once
NextTab(s) ==
  /\ sess[s].pc = "idle"
  /\ sess[s].run.pc = "tabs"
  /\ sess[s].run.todo # <<>>
  /\ LET t == Head(sess[s].run.todo)
         r == IF NodesOf(t[2]) = <<>> THEN sess[s]
              ELSE IF t[1] = "tab" THEN TabSession(s, t[2])
              ELSE ColumnSession(s, t[2])
     IN sess' = [sess EXCEPT ![s] = [r EXCEPT !.run.todo = Tail(@)]]
  /\ out' = NoOut
  /\ UNCHANGED <<now, ticks, cache, locks>>

\* the end of main after the last tab
MainEnd(s) ==
  /\ sess[s].pc = "idle"
  /\ sess[s].run.pc = "tabs"
  /\ sess[s].run.todo = <<>>
  /\ sess' = [sess EXCEPT ![s].run.pc = "done"]
  /\ out' = NoOut
  /\ UNCHANGED <<now, ticks, cache, locks>>

\* the outcomes of a GET: those without a table, and a 200 response with
\* each body of the endpoint
AllOutcomes == [fn \in {"rt", "da"} |-> BadOutcomes \cup {Http(200, b) : b \in Bodies(fn)}]
\* the upstream answers 503 or 200
FewOutcomes == [fn \in {"rt", "da"} |-> {Http(503, <<>>)} \cup {Http(200, b) : b \in Bodies(fn)}]

\* the steps of a fetch call, a GET having one of the outcomes OO[fn]
FetchSteps(SS, OO) ==
  \/ \E s \in SS : CacheLookup(s)
  \/ \E s \in SS : AcquireLock(s)
  \/ \E s \in SS : \E o \in OO[sess[s].fn] : Get(s, o)
  \/ \E s \in SS : Sleep(s)

\* the steps of the callers
CallerSteps(SS, II) ==
  \/ \E s \in SS, iso \in II : StartTab(s, iso)
  \/ \E s \in SS, iso \in II : StartColumn(s, iso)
  \/ \E s \in SS : ReturnRenderRT(s)
  \/ \E s \in SS : ReturnRenderDA(s)
  \/ \E s \in SS : ReturnGetRtPrice(s)

ClockStep == \E d \in ClockSteps : Tick(d)

\* one session renders the PJM tab and the PJM column
Next ==
  \/ CallerSteps({"A"}, {"PJM"})
  \/ FetchSteps({"A"}, AllOutcomes)

Spec == Init /\ [][Next]_vars

\* one session renders the two nodes of ERCOT
NextNodes ==
  \/ CallerSteps({"A"}, {"ERCOT"})
  \/ FetchSteps({"A"}, AllOutcomes)

SpecNodes == Init /\ [][NextNodes]_vars

\* one session renders PJM again and again while time passes
NextClock ==
  \/ CallerSteps({"A"}, {"PJM"})
  \/ FetchSteps({"A"}, FewOutcomes)
  \/ ClockStep

SpecClock == Init /\ [][NextClock]_vars

\* two sessions render PJM concurrently
NextConc ==
  \/ CallerSteps(Sessions, {"PJM"})
  \/ FetchSteps(Sessions, FewOutcomes)

SpecConc == Init /\ [][NextConc]_vars

\* the sessions run main while time passes
NextMain ==
  \/ \E s \in Sessions : MainStart(s)
  \/ \E s \in Sessions : MainCurrentHe(s)
  \/ ClockStep

SpecMain == Init /\ [][NextMain]_vars

\* the upstream answers 503 or with one good table
CycleOutcomes ==
  [fn \in {"rt", "da"} |->
     {Http(503, <<>>),
      Http(200, IF fn = "rt"
                THEN <<Th(RtCols), Td(<<Num(10), Num(25)>>), Td(<<Num(5), Num(30)>>)>>
                ELSE <<Th(DaCols), Td(<<Num(1380), Num(40), Num(24)>>),
                       Td(<<Num(0), Num(35), Num(1)>>)>>)}]

\* one session renders the tabs of lines 582-594 in their order
NextCycle ==
  \/ MainTabs("A")
  \/ NextTab("A")
  \/ MainEnd("A")
  \/ ReturnRenderRT("A")
  \/ ReturnRenderDA("A")
  \/ ReturnGetRtPrice("A")
  \/ FetchSteps({"A"}, CycleOutcomes)

SpecCycle == Init /\ [][NextCycle]_vars

\* one session renders PJM, the Refresh button is pressed now and then
NextClear ==
  \/ CallerSteps({"A"}, {"PJM"})
  \/ FetchSteps({"A"}, FewOutcomes)
  \/ Refresh("A")

SpecClear == Init /\ [][NextClear]_vars

(***************************************************************************)
(* The real-time endpoint answers with any text of up to MaxRows <tr>      *)
(* segments: header rows, data rows of one, two or three cells, a data row *)
(* without a cell, a row that is neither                                   *)
(***************************************************************************)
ParseRows ==
  {Th(RtCols), Td(<<Num(0), Num(1)>>), Td(<<Num(5)>>), Td(<<Num(0), Num(1), Num(2)>>),
   Td(<<>>), TrOther}
ParseBodies == UNION {[1..n -> ParseRows] : n \in 0..MaxRows}
ParseOutcomes == {Http(200, b) : b \in ParseBodies}

\* one session renders the PJM column
NextParse ==
  \/ StartColumn("A", "PJM")
  \/ CacheLookup("A")
  \/ AcquireLock("A")
  \/ \E o \in ParseOutcomes : Get("A", o)
  \/ ReturnGetRtPrice("A")

SpecParse == Init /\ [][NextParse]_vars

(***************************************************************************)
(* Both endpoints answer with any table of up to MaxRows rows in any       *)
(* order: instants of two days, rows without an instant, prices and        *)
(* hour-endings that are no numbers, day-ahead tables with and without the *)
(* HOURENDING column                                                       *)
(***************************************************************************)
SeriesRtRows ==
  {Td(<<Num(5), Num(1)>>), Td(<<Num(MinutesPerDay), Num(2)>>), Td(<<Num(10), Txt>>),
   Td(<<Emp, Num(3)>>)}
SeriesDaRows ==
  {Td(<<Num(0), Num(35), Num(2)>>), Td(<<Num(60), Txt, Num(1)>>), Td(<<Num(0), Num(40), Txt>>)}
SeriesDaRowsNoHE == {Td(<<Num(60), Num(33)>>), Td(<<Num(0), Txt>>)}
SeriesBodies(header, rows) ==
  UNION {{<<Th(header)>> \o r : r \in [1..n -> rows]} : n \in 1..MaxRows}
SeriesOutcomes ==
  [fn \in {"rt", "da"} |->
     {Http(200, b) :
        b \in IF fn = "rt" THEN SeriesBodies(RtCols, SeriesRtRows)
              ELSE SeriesBodies(DaCols, SeriesDaRows)
                   \cup SeriesBodies(RtCols, SeriesDaRowsNoHE)}]

\* one session renders the PJM tab
NextSeries ==
  \/ StartTab("A", "PJM")
  \/ CacheLookup("A")
  \/ AcquireLock("A")
  \/ \E o \in SeriesOutcomes[sess["A"].fn] : Get("A", o)
  \/ ReturnRenderRT("A")
  \/ ReturnRenderDA("A")

SpecSeries == Init /\ [][NextSeries]_vars

(***************************************************************************)
(* The real-time endpoint answers with any table of up to MaxRows rows     *)
(***************************************************************************)
RowTimes == {Num(0), Num(5), Num(10), Emp}
RowPrices == {Num(1), Num(2), Txt}
RowCells == {Td(<<t, p>>) : t \in RowTimes, p \in RowPrices}
RowBodies ==
  UNION {{<<Th(RtCols)>> \o rows : rows \in [1..n -> RowCells]} : n \in 1..MaxRows}
RowOutcomes == {Http(200, b) : b \in RowBodies}

\* one session renders the PJM column
NextRows ==
  \/ StartColumn("A", "PJM")
  \/ CacheLookup("A")
  \/ AcquireLock("A")
  \/ \E o \in RowOutcomes : Get("A", o)
  \/ ReturnGetRtPrice("A")

SpecRows == Init /\ [][NextRows]_vars

(***************************************************************************)
(* Properties                                                              *)
(***************************************************************************)
\* n GETs, each with the timeout of 30 s, and a sleep of 2 s between each two
AlternatingTrace(n) ==
  [i \in 1..(2 * n - 1) |-> IF i % 2 = 1 THEN <<"get", 30>> ELSE <<"sleep", 2>>]
Is2xx(o) == o.kind = "http" /\ o.code >= 200 /\ o.code <= 299
\* the call of the session has ended and went through the wrapped function
Fetched(s) == sess[s].pc = "ret" /\ ~sess[s].call.hit
\* _fetch_with_retry raised after its loop
Exhausted(s) == Fetched(s) /\ sess[s].call.response = NoObserved
ClaimedAttempts(fn) == IF fn = "rt" THEN 3 ELSE 5
ClaimedTtl(fn) == IF fn = "rt" THEN 120 ELSE 86400

\* C1: when a fetch for a key fails after exhausting its retries and an
\* earlier fetch for the same key succeeded (its entry, expired, is still in
\* the store), the caller receives the value of that earlier fetch
C1_StaleFallback ==
  \A s \in Sessions :
    (Exhausted(s) /\ \E e \in cache : e.key = Key(s))
      => \E e \in cache : e.key = Key(s) /\ sess[s].call.res = Ok(e.value)

\* C2: when every attempt of a call is a non-2xx response, a timeout or a
\* connection error, the call makes exactly maxAttempts GETs (3 real-time, 5
\* day-ahead) with one sleep between each two of them, none after the last,
\* and then raises
C2_RetryBoundOnExhaustion ==
  \A s \in Sessions :
    (Fetched(s) /\ ~Is2xx(sess[s].call.observed))
      => /\ sess[s].call.response = NoObserved
         /\ sess[s].call.res.st = "exc"
         /\ sess[s].call.trace = AlternatingTrace(ClaimedAttempts(sess[s].fn))

\* C3: the retry loop returns at the first 2xx response and only there: a
\* response it returns is a 2xx response, it is the one of the last GET, the
\* attempts before it each failed and were each followed by one sleep, and
\* nothing follows it
C3_StopsAtFirstSuccess ==
  \A s \in Sessions :
    (Fetched(s) /\ sess[s].call.response # NoObserved)
      => LET c == sess[s].call
             k == (Len(c.trace) + 1) \div 2
         IN /\ Is2xx(c.response)
            /\ c.response = c.observed
            /\ k <= ClaimedAttempts(sess[s].fn)
            /\ c.trace = AlternatingTrace(k)

\* C4: a call goes to the upstream exactly when the store holds no live entry
\* for its key, live meaning now - storedAt < ttl (120 s real-time, 86400 s
\* day-ahead) at the time of the lookup, and a hit returns the stored value
C4_HitMissRule ==
  \A s \in Sessions :
    LET c == sess[s].call
        live == {e \in cache : e.key = Key(s)
                               /\ c.at - e.storedAt < ClaimedTtl(sess[s].fn)}
    IN /\ sess[s].pc \in {"lock", "get", "sleep"} => live = {}
       /\ (sess[s].pc = "ret" /\ c.hit) =>
            c.trace = <<>> /\ \E e \in live : c.res = Ok(e.value)
       /\ (sess[s].pc = "ret" /\ ~c.hit) => c.trace # <<>>

\* C4 witness: a lookup at the very instant the ttl of the entry has elapsed
\* went to the upstream
C4_Witness ==
  \E s \in Sessions :
    /\ sess[s].pc = "get" /\ sess[s].fn = "rt"
    /\ \E e \in cache : e.key = Key(s) /\ sess[s].call.at - e.storedAt = 120

\* a value that passed the validation of its fetch function
ValidValue(fn, v) ==
  /\ v.df # <<>>
  /\ fn = "rt" => IsNum(v.latest) /\ \E i \in 1..Len(v.df) : v.df[i][2] = v.latest

\* C5: a fetch that ends in a failure leaves the store exactly as it was, and
\* every entry written holds a value that passed validation
C5_StoreUnchangedOnFailure ==
  [][ /\ \A s \in Sessions :
           (sess[s].pc = "get" /\ sess'[s].pc = "ret" /\ sess'[s].call.res.st = "exc")
             => cache' = cache
      /\ \A e \in cache' \ cache : ValidValue(e.key.fn, e.value) ]_vars

\* C5 witness: a day-ahead fetch failed on the body of a 200 response while
\* the store held an entry
C5_Witness ==
  \E s \in Sessions :
    /\ Fetched(s) /\ sess[s].fn = "da" /\ sess[s].call.res.st = "exc"
    /\ sess[s].call.response.code = 200
    /\ cache # {}

\* C6: a caller that waited while another session fetched its key never
\* fetches itself: it receives the result of that fetch
C6_SingleFlight ==
  \A s \in Sessions :
    sess[s].call.due # NoRes
      => /\ sess[s].pc \in {"lock", "ret"}
         /\ sess[s].pc = "ret" => sess[s].call.res = sess[s].call.due
                                  /\ sess[s].call.trace = <<>>

\* C7: the error raised after the loop describes the failure of the final
\* attempt: its kind, the description of the call, and its status code or
\* the timeout
C7_LastCauseError ==
  \A s \in Sessions :
    Exhausted(s) =>
      LET c == sess[s].call IN
      /\ c.res.st = "exc"
      /\ c.res.err.kind \in {"http", "timeout", "request"}
      /\ c.res.err.kind = c.observed.kind
      /\ c.res.err.who = <<IF sess[s].fn = "rt" THEN "RT" ELSE "DA", Node(s)>>
      /\ c.res.err.code = IF c.observed.kind = "timeout" THEN 30 ELSE c.observed.code

\* C7 witness: a day-ahead call whose final attempt timed out has raised
C7_Witness ==
  \E s \in Sessions :
    /\ Exhausted(s) /\ sess[s].fn = "da"
    /\ sess[s].call.observed.kind = "timeout"
    /\ Len(sess[s].call.trace) = 9

BodyUnusable(fn, body) ==
  LET ths == SelectSeq(body, LAMBDA r : r.tag = "th" /\ r.cells # <<>>)
      tds == SelectSeq(body, LAMBDA r : r.tag = "td" /\ r.cells # <<>>)
  IN \/ ths = <<>>
     \/ tds = <<>>
     \/ /\ fn = "rt"
        /\ \A i \in 1..Len(tds) : Len(tds[i].cells) < 2 \/ ~IsNum(tds[i].cells[2])

\* C9: a 2xx response whose body cannot be used ends the call at once with
\* a failure: no sleep and no GET follows it and no value comes out of it
C9_ParseFailureNotRetried ==
  \A s \in Sessions :
    LET c == sess[s].call IN
    (Fetched(s) /\ Is2xx(c.response) /\ BodyUnusable(sess[s].fn, c.response.body))
      => /\ c.res.st = "exc"
         /\ c.res.val = NoVal
         /\ c.response = c.observed
         /\ c.trace # <<>> /\ c.trace[Len(c.trace)][1] = "get"

\* C9 witness: the first GET of a real-time call returned a table without a
\* numeric price and the call has failed
C9_Witness ==
  \E s \in Sessions :
    /\ Fetched(s) /\ sess[s].fn = "rt"
    /\ sess[s].call.response = Http(200, <<Th(RtCols), Td(<<Num(0), Txt>>), Td(<<Num(5), Emp>>)>>)
    /\ sess[s].call.trace = <<(<<"get", 30>>)>>
    /\ sess[s].call.res.st = "exc"

\* the data rows of a body and, among those with a timestamp and a numeric
\* price, the ones with the greatest timestamp
DataRows(body) == SelectSeq(body, LAMBDA r : r.tag = "td")
Dated(row) == IsNum(row.cells[1]) /\ IsNum(row.cells[2])
LatestRows(rows) ==
  {i \in 1..Len(rows) :
     /\ Dated(rows[i])
     /\ \A j \in 1..Len(rows) :
          Dated(rows[j]) => rows[j].cells[1][2] <= rows[i].cells[1][2]}
FetchedRt(s) == Fetched(s) /\ sess[s].fn = "rt" /\ sess[s].call.res.st = "ok"

\* C10: the latest price is the price of every row that has the greatest
\* timestamp among the rows with a numeric price, so it is fixed by the set
\* of rows and not by their order
C10_LatestPrice ==
  \A s \in Sessions :
    FetchedRt(s) =>
      LET rows == DataRows(sess[s].call.response.body) IN
      \A i \in LatestRows(rows) : sess[s].call.res.val.latest = rows[i].cells[2]

\* a data row of a body (a <tr> with at least one <td> cell) and a header
\* row of it
IsDataRow(tr) == tr.tag = "td" /\ tr.cells # <<>>
IsHeaderRow(tr) == tr.tag = "th" /\ tr.cells # <<>>
HeaderPrecedes(body, j) == \E i \in 1..(j - 1) : IsHeaderRow(body[i])

\* C11: parse_yes_html_table returns None for a body without a row and for
\* a body with a data row that no header row precedes; for a header row
\* followed by data rows it returns at least one row, every row with as many
\* fields as the header has columns
C11_ParserFailure ==
  \A s \in Sessions :
    (Fetched(s) /\ Is2xx(sess[s].call.response)) =>
      LET body == sess[s].call.response.body
          df == parse_yes_html_table(body)
          data == {j \in 1..Len(body) : IsDataRow(body[j])}
      IN /\ body = <<>> => df = NoFrame
         /\ (\E j \in data : ~HeaderPrecedes(body, j)) => df = NoFrame
         /\ (data # {} /\ \A j \in data : HeaderPrecedes(body, j)) =>
              /\ df.st = "df"
              /\ df.rows # <<>>
              /\ \A i \in 1..Len(df.rows) : Len(df.rows[i]) = Len(df.cols)
         /\ df = NoFrame => sess[s].call.res.err.kind = "empty"

\* C12: the cache clear leaves no live entry, so the next fetch of any key
\* goes to the upstream, while the value last fetched for a key is destroyed
\* by no step (neither the clear nor an expiry): it stays stored until a
\* later successful fetch for the key overwrites it
C12_ClearScope ==
  [][ /\ out'.st = "rerun" => {e \in cache' : IsLive(e, now')} = {}
      /\ \A e \in cache : \E e2 \in cache' : e2.key = e.key ]_vars

\* C13: when render_node charts a day-ahead series of n points, the step
\* coordinates are 2n points: the i-th point (he, p) gives the coordinates
\* 2i-1 and 2i, (he-1, p) and then (he, p), in the order of the series
C13_StepExpansion ==
  [][ \A s \in Sessions :
        ( /\ sess[s].pc = "ret" /\ sess[s].op = "tab" /\ sess[s].fn = "da"
          /\ sess[s].call.res.st = "ok"
          /\ sess'[s] # sess[s] ) =>
          LET da_df == sess[s].call.res.val.df
              steps == out'.steps
          IN /\ Len(steps) = 2 * Len(da_df)
             /\ \A i \in 1..Len(da_df) :
                  /\ steps[2 * i - 1] = <<da_df[i][1][2] - 1, da_df[i][2]>>
                  /\ steps[2 * i] = <<da_df[i][1][2], da_df[i][2]>> ]_vars

\* the point of the real-time series a data row stands for: the time of day
\* of its instant and its price, each missing when the cell is no number
RtPoint(row) ==
  << IF IsNum(row.cells[1]) THEN Num(row.cells[1][2] % 1440) ELSE NaN,
     IF IsNum(row.cells[2]) THEN row.cells[2] ELSE NaN >>
FetchedOk(s) == Fetched(s) /\ sess[s].call.res.st = "ok"

\* C14: a series a fetch returns is sorted whatever the order of the rows
\* of the response: the real-time series is the rows of the response in an
\* order in which the instants ascend, the hour-endings of the day-ahead
\* series ascend
C14_SeriesSorted ==
  \A s \in Sessions :
    FetchedOk(s) =>
      LET rows == DataRows(sess[s].call.response.body)
          df == sess[s].call.res.val.df
      IN IF sess[s].fn = "rt"
         THEN \E p \in Perms(Len(rows)) :
                /\ df = [i \in 1..Len(rows) |-> RtPoint(rows[p[i]])]
                /\ \A i, j \in 1..Len(rows) :
                     (i < j /\ IsNum(rows[p[i]].cells[1]) /\ IsNum(rows[p[j]].cells[1]))
                       => rows[p[i]].cells[1][2] <= rows[p[j]].cells[1][2]
         ELSE \A i, j \in 1..Len(df) :
                (i < j /\ IsNum(df[i][1]) /\ IsNum(df[j][1])) => df[i][1][2] <= df[j][1][2]

\* C14 witness: the response had the instant of the next day before an
\* instant of this day; the series has them in the order of the instants,
\* which is not the order of the hours of the day
C14_Witness ==
  \E s \in Sessions :
    /\ FetchedOk(s) /\ sess[s].fn = "rt"
    /\ sess[s].call.response.body =
         <<Th(RtCols), Td(<<Num(1440), Num(2)>>), Td(<<Num(5), Num(1)>>)>>
    /\ sess[s].call.res.val.df = <<(<<Num(5), Num(1)>>), (<<Num(0), Num(2)>>)>>

\* the number of points of a series without a price, and of data rows of a
\* response whose price cell is no number
NullPoints(df) == Cardinality({i \in 1..Len(df) : ~IsNum(df[i][2])})
NullRows(rows) == Cardinality({i \in 1..Len(rows) : ~IsNum(rows[i].cells[2])})

\* C15: a response in which at least one row has a numeric price gives a
\* series, the series has one point per data row of the response, and the
\* rows whose price cell is no number are in it as points without a price
C15_NullPricesKept ==
  \A s \in Sessions :
    (Fetched(s) /\ Is2xx(sess[s].call.response)) =>
      LET rows == DataRows(sess[s].call.response.body)
          res == sess[s].call.res
      IN /\ (\E i \in 1..Len(rows) : IsNum(rows[i].cells[2])) => res.st = "ok"
         /\ res.st = "ok" =>
              /\ Len(res.val.df) = Len(rows)
              /\ NullPoints(res.val.df) = NullRows(rows)

\* C15 witness: a day-ahead response of two rows, one with a price that is
\* no number, gave a series of two points, one without a price
C15_Witness ==
  \E s \in Sessions :
    /\ FetchedOk(s) /\ sess[s].fn = "da"
    /\ Len(DataRows(sess[s].call.response.body)) = 2
    /\ NullRows(DataRows(sess[s].call.response.body)) = 1
    /\ Len(sess[s].call.res.val.df) = 2
    /\ NullPoints(sess[s].call.res.val.df) = 1

\* C16: every computation of the current hour-ending in a render gives the
\* local hour of a zone plus one, a number in 1..24: the one of an ISO tab
\* (the hour-ending the day-ahead price of its nodes is looked up with) and
\* the one of main, whose run is past line 557 only with such a value
C16_PerZoneHourEnding ==
  \A s \in Sessions :
    /\ sess[s].op = "tab" =>
         sess[s].he \in 1..24
    /\ sess[s].run.pc \in {"delay", "raised"} =>
         /\ sess[s].run.he \in 1..24
         /\ \E iso \in DOMAIN ISO_TIMEZONES :
              sess[s].run.he = LocalHour(iso, sess[s].run.now) + 1

\* the five-minute window an instant falls in, in a zone: the day, the hour
\* and the twelfth of the hour
Window5(iso, t) == <<date_str(iso, t), LocalHour(iso, t), LocalMinute(iso, t) \div 5>>
EpochInstants == {60 * m : m \in 0..MaxMinutes}

\* C17: the refresh_key a tab or column computes for its real-time calls is
\* the one any other instant of the zone gives exactly when that instant
\* falls in the same five-minute window of the same day
C17_FiveMinuteEpoch ==
  [][ \A s \in Sessions :
        (sess[s].pc = "idle" /\ sess'[s].pc = "call") =>
          \A iso \in DOMAIN ISO_TIMEZONES :
            NodesOf(iso) = sess'[s].todo =>
              \A t \in EpochInstants :
                (refresh_key(iso, t) = sess'[s].rk) <=> (Window5(iso, t) = Window5(iso, now))
    ]_vars

\* the GETs a run of main has made for a node and a series kind
RECURSIVE RunGets(_, _, _)
RunGets(paths, node, fn) ==
  IF paths = <<>> THEN 0
  ELSE (IF Head(paths)[1] = node /\ Head(paths)[2] = fn THEN Head(paths)[3] ELSE 0)
       + RunGets(Tail(paths), node, fn)

\* C18: in one run of main over the tabs, a fetch function runs its body at
\* most once for each node and series kind, and the run makes at most
\* maxAttempts GETs (3 real-time, 5 day-ahead) for each of them
C18_OneFetchPerRender ==
  \A s \in Sessions :
    LET paths == sess[s].run.paths IN
    \A i \in 1..Len(paths) :
      /\ \A j \in 1..Len(paths) :
           (paths[j][1] = paths[i][1] /\ paths[j][2] = paths[i][2]) => j = i
      /\ RunGets(paths, paths[i][1], paths[i][2]) <= ClaimedAttempts(paths[i][2])

\* C19: a run of main has computed a refresh delay between 46 and 345
\* seconds, and the delay ends at second :45 of a five-minute boundary after
\* the time the run read
C19_RefreshDelay ==
  \A s \in Sessions :
    sess[s].run.pc \in {"raised", "done"} =>
      LET d == sess[s].run.seconds_until_refresh IN
      /\ d >= 46 /\ d <= 345
      /\ LocalSeconds("ERCOT", sess[s].run.now + d) % 300 = 45

====
